---- MODULE Spec2Model ----
(***************************************************************************)
(* Model of the request gate of the blog admin panel (src/middleware.ts).  *)
(*                                                                         *)
(* A path is a sequence of one-character strings, so that startsWith and   *)
(* the comparison with '/admin/login' are computed character by character  *)
(* as String.prototype.startsWith and !== compute them.  A cookie store is *)
(* a function from the cookie names present in the request to their        *)
(* values (strings).                                                       *)
(***************************************************************************)
EXTENDS Integers, Sequences, FiniteSets, TLC

VARIABLES
    pc,        \* "idle": no request; "gate": a request waits for the gate; "done": decided
    path,      \* request.nextUrl.pathname of the request in hand
    cookies,   \* request.cookies of the request in hand
    response,  \* what middleware returned for the request in hand
    log,       \* the console.log records written while handling the request in hand
    hops,      \* redirects the client has followed since the request it started with
    inflight,  \* concurrent invocations of the gate: slot -> [pc, path, cookies, response]
    console,   \* the lines the concurrent invocations have written to the console
    method,    \* blog API: the HTTP method of the request in hand
    body,      \* blog API: the JSON body of the request in hand
    fault,     \* blog API: the store call that throws while the request is handled, if any
    blogs,     \* blog API: the stored blog documents, _id -> document
    storeCalls, \* blog API: the store calls made while handling the request in hand
    page,      \* blog forms: the mounted page, "none", "create" or "edit"
    formData,  \* blog forms: the form's fields, <<name, type, value>> in key order
    originalData, \* edit form: <<>> for null, else <<the loaded or saved fields>>
    imageFile, \* blog forms: <<>> for null, else <<the selected file>>
    isSubmitting, \* blog forms: the isSubmitting state
    isLoading, \* edit form: the isLoading state, true while fetchBlog is in flight
    error,     \* blog forms: the error message state
    success,   \* blog forms: the success message state
    validationErrors, \* blog forms: the <<field, message>> pairs of validationErrors
    submitPc,  \* handleSubmit's position: "none", or the await it is suspended at
    closure,   \* what the suspended handleSubmit holds: formData and coverImageUrl
    netCalls,  \* the network calls of the last handleSubmit and how they settled
    submitted  \* the last handleSubmit: "never", "invalid", "pending" or "done"

gateVars == <<pc, path, cookies, response, log, hops>>

concVars == <<inflight, console>>

blogVars == <<method, body, fault, blogs, storeCalls>>

formVars == <<page, formData, originalData, imageFile, isSubmitting, isLoading,
              error, success, validationErrors, submitPc, closure, netCalls,
              submitted>>

vars == <<gateVars, concVars, blogVars, formVars>>

\* ---------------------------------------------------------------- bounds

\* The longest tail appended to a base path when enumerating request paths.
MaxSuffix == 2

\* ---------------------------------------------------------------- inputs

\* The string literals of middleware.ts, as character sequences.
ADMIN == <<"/", "a", "d", "m", "i", "n">>

ADMIN_LOGIN == ADMIN \o <<"/", "l", "o", "g", "i", "n">>

API_ADMIN == <<"/", "a", "p", "i">> \o ADMIN

API_ADMIN_LOGIN == API_ADMIN \o <<"/", "l", "o", "g", "i", "n">>

SESSION == "session"

\* Base paths the enumerated request paths extend.
BasePaths ==
    { <<>>,
      ADMIN,
      ADMIN_LOGIN,
      ADMIN \o <<"/", "d", "a", "s", "h", "b", "o", "a", "r", "d">>,
      API_ADMIN,
      API_ADMIN_LOGIN,
      API_ADMIN \o <<"/", "b", "l", "o", "g", "s">>,
      <<"/", "a", "p", "i">>,
      <<"/", "b", "l", "o", "g">> }

\* Characters a tail is made of: a separator, a letter, a digit.
TailChars == {"/", "X", "2"}

Tails == UNION { [1..n -> TailChars] : n \in 0..MaxSuffix }

\* A pathname is never empty and always begins with "/".
Paths == { p \in { b \o t : b \in BasePaths, t \in Tails } : Len(p) >= 1 /\ p[1] = "/" }

\* Cookie names a request may carry: the session cookie and look-alikes.
CookieNames == {"session", "Session", "token"}

\* Cookie values: empty, a token issued at login, and two values nobody issued.
CookieValues == {"", "tok-issued", "tok-forged", "%%garbage"}

CookieStores == UNION { [names -> CookieValues] : names \in SUBSET CookieNames }

\* ---------------------------------------------------------------- the gate

\* String.prototype.startsWith
startsWith(s, prefix) ==
    /\ Len(s) >= Len(prefix)
    /\ \A i \in 1..Len(prefix) : s[i] = prefix[i]

\* request.cookies.get(name)?.value : <<>> is undefined, <<v>> is the value v
cookieValue(store, name) ==
    IF name \in DOMAIN store THEN <<store[name]>> ELSE <<>>

\* truthy with the empty string taken for a value: x !== undefined
truthy_definedOnly(opt) == opt # <<>>

\* !!x for x a string or undefined
truthy(opt) == opt # <<>> /\ opt[1] # ""

\* isAdminUIPath without the login exemption
isAdminUIPath_noLoginExempt(p) == startsWith(p, ADMIN)

\* String.prototype.includes
includes(s, sub) ==
    \E k \in 0..(Len(s) - Len(sub)) : \A i \in 1..Len(sub) : s[k + i] = sub[i]

\* isAdminUIPath testing includes('/admin') instead of startsWith('/admin')
isAdminUIPath_includes(p) == includes(p, ADMIN) /\ p # ADMIN_LOGIN

isAdminUIPath(p) == startsWith(p, ADMIN) /\ p # ADMIN_LOGIN

\* isAdminApiPath with the prefix cut short to '/api'
isAdminApiPath_apiPrefix(p) ==
    startsWith(p, <<"/", "a", "p", "i">>) /\ ~startsWith(p, API_ADMIN_LOGIN)

\* isAdminApiPath exempting only the exact login path, as the UI predicate does
isAdminApiPath_exactLogin(p) == startsWith(p, API_ADMIN) /\ p # API_ADMIN_LOGIN

isAdminApiPath(p) == startsWith(p, API_ADMIN) /\ ~startsWith(p, API_ADMIN_LOGIN)

\* isAuthenticated reading the cookie under another name
isAuthenticated_wrongName(store) == truthy(cookieValue(store, "token"))

\* isAuthenticated accepting a present cookie whatever its value
isAuthenticated_presentOnly(store) == SESSION \in DOMAIN store

\* isAuthenticated accepting only the value issued at login
isAuthenticated_issuedOnly(store) == cookieValue(store, SESSION) = <<"tok-issued">>

isAuthenticated(store) == truthy(cookieValue(store, SESSION))

\* NextResponse.next()
NextResponseNext == [kind |-> "next"]

\* JSON.stringify of an object whose values are strings, given as its
\* <<key, value>> pairs in insertion order: the text as a sequence of tokens,
\* <<"p", c>> a punctuation character and <<"s", x>> the quoted string x
JSONStringify(pairs) ==
    << <<"p", "{">> >> \o
    [i \in 1..(4 * Len(pairs) - 1) |->
        IF i % 4 = 1 THEN <<"s", pairs[(i + 3) \div 4][1]>>
        ELSE IF i % 4 = 2 THEN <<"p", ":">>
        ELSE IF i % 4 = 3 THEN <<"s", pairs[(i + 3) \div 4][2]>>
        ELSE <<"p", ",">>] \o
    << <<"p", "}">> >>

\* new NextResponse(JSON.stringify({error, code}), {status: 401, headers})
Unauthorized401 ==
    [kind |-> "response",
     status |-> 401,
     headers |-> [name \in {"Content-Type"} |-> "application/json"],
     body |-> JSONStringify(<< <<"error", "Unauthorized">>,
                               <<"code", "not_authenticated">> >>)]

\* A redirect to '/admin' instead of the login page
RedirectToAdmin == [kind |-> "redirect", pathname |-> ADMIN]

\* NextResponse.redirect(new URL('/admin/login', request.url)): the absolute
\* path replaces the request's path, the origin is kept
RedirectToLogin == [kind |-> "redirect", pathname |-> ADMIN_LOGIN]

\* The console.log line of the gate
LogRecord(p, store) ==
    [path |-> p, auth |-> IF isAuthenticated(store) THEN "Yes" ELSE "No"]

\* middleware without the API branch: every unauthenticated request is redirected
middleware_redirectAll(p, store) ==
    IF ~isAdminUIPath(p) /\ ~isAdminApiPath(p) THEN NextResponseNext
    ELSE IF ~isAuthenticated(store) THEN RedirectToLogin
    ELSE NextResponseNext

\* middleware without its last return statement: the function ends and yields undefined
middleware_noFinalReturn(p, store) ==
    IF ~isAdminUIPath(p) /\ ~isAdminApiPath(p) THEN NextResponseNext
    ELSE IF ~isAuthenticated(store) THEN
        IF isAdminApiPath(p) THEN Unauthorized401
        ELSE IF isAdminUIPath(p) THEN RedirectToLogin
        ELSE [kind |-> "undefined"]
    ELSE [kind |-> "undefined"]

\* middleware(request): the returned response
middleware(p, store) ==
    IF ~isAdminUIPath(p) /\ ~isAdminApiPath(p) THEN NextResponseNext
    ELSE IF ~isAuthenticated(store) THEN
        IF isAdminApiPath(p) THEN Unauthorized401
        ELSE IF isAdminUIPath(p) THEN RedirectToLogin
        ELSE NextResponseNext
    ELSE NextResponseNext

\* middleware writing its console line before the early return
middlewareLog_beforeEarlyReturn(p, store) == <<LogRecord(p, store)>>

\* middleware(request): what it writes to the console
middlewareLog(p, store) ==
    IF ~isAdminUIPath(p) /\ ~isAdminApiPath(p) THEN <<>>
    ELSE <<LogRecord(p, store)>>

\* ---------------------------------------------------------------- the matcher

\* config.matcher
MatcherPrefixes == {ADMIN, API_ADMIN}

\* A pattern '<prefix>/:path*' taken for a plain prefix test
matchesPattern_prefixOnly(p, prefix) == startsWith(p, prefix)

\* Whether a path matches the pattern '<prefix>/:path*': the prefix, then zero
\* or more non-empty segments each led by a '/', then at most one closing '/'
matchesPattern(p, prefix) ==
    /\ startsWith(p, prefix)
    /\ LET rest == SubSeq(p, Len(prefix) + 1, Len(p))
       IN  IF rest = <<>> THEN TRUE
           ELSE /\ rest[1] = "/"
                /\ \A i \in 1..(Len(rest) - 1) : ~(rest[i] = "/" /\ rest[i + 1] = "/")

\* Whether the framework hands a request for this path to the gate
matches(p) == \E prefix \in MatcherPrefixes : matchesPattern(p, prefix)

\* ---------------------------------------------------------------- behaviour

NoResponse == [kind |-> "none"]

\* The gate invocations that may be in progress at once.
NumSlots == 2

Slots == 1..NumSlots

\* A slot in which no invocation is in progress
IdleSlot == [pc |-> "idle", path |-> <<"/">>, cookies |-> <<>>, response |-> NoResponse]

\* A request without a body
NoBody == [published |-> "undefined", publishedAt |-> "undefined",
           author |-> "undefined", slug |-> "undefined"]

\* useState({title: '', slug: '', content: '', excerpt: '', coverImage: '',
\* tags: '', published: false}): an object is its fields in key order, a field
\* is <<name, type, value>>, type "s" a string given as its characters, "b" a
\* boolean given as <<"true">> or <<"false">>, "a" an array of strings
InitialFormData ==
    << <<"title", "s", <<>>>>, <<"slug", "s", <<>>>>, <<"content", "s", <<>>>>,
       <<"excerpt", "s", <<>>>>, <<"coverImage", "s", <<>>>>, <<"tags", "s", <<>>>>,
       <<"published", "b", <<"false">>>> >>

\* The state of a form that is not mounted, which is also what the useState
\* calls of the create form give when it mounts
FormInit ==
    /\ page = "none"
    /\ formData = InitialFormData
    /\ originalData = <<>>
    /\ imageFile = <<>>
    /\ isSubmitting = FALSE
    /\ isLoading = FALSE
    /\ error = ""
    /\ success = ""
    /\ validationErrors = {}
    /\ submitPc = "none"
    /\ closure = <<>>
    /\ netCalls = <<>>
    /\ submitted = "never"

Init ==
    /\ pc = "idle"
    /\ path = <<"/">>
    /\ cookies = <<>>
    /\ response = NoResponse
    /\ log = <<>>
    /\ hops = 0
    /\ inflight = [i \in Slots |-> IdleSlot]
    /\ console = {}
    /\ method = "NONE"
    /\ body = NoBody
    /\ fault = "none"
    /\ blogs = <<>>
    /\ storeCalls = <<>>
    /\ FormInit

\* A request arrives at the gate.
Receive ==
    /\ pc = "idle"
    /\ \E p \in Paths, c \in CookieStores :
        /\ path' = p
        /\ cookies' = c
    /\ response' = NoResponse
    /\ log' = <<>>
    /\ pc' = "gate"
    /\ UNCHANGED <<hops, concVars, blogVars, formVars>>

\* The gate runs on the request in hand.
Middleware ==
    /\ pc = "gate"
    /\ response' = middleware(path, cookies)
    /\ log' = log \o middlewareLog(path, cookies)
    /\ pc' = "done"
    /\ UNCHANGED <<path, cookies, hops, concVars, blogVars, formVars>>

\* The framework takes the gate's response and is ready for the next request.
Deliver ==
    /\ pc = "done"
    /\ pc' = "idle"
    /\ path' = <<"/">>
    /\ cookies' = <<>>
    /\ response' = NoResponse
    /\ log' = <<>>
    /\ UNCHANGED <<hops, concVars, blogVars, formVars>>

Next == Receive \/ Middleware \/ Deliver

Spec == Init /\ [][Next]_vars

\* ------------------------------------------------- the gate behind its matcher

\* What a request gets that the framework never hands to the gate: it goes on
\* to its handler
Bypassed == [kind |-> "bypass"]

\* A request arrives at the framework.
Arrive ==
    /\ pc = "idle"
    /\ \E p \in Paths, c \in CookieStores :
        /\ path' = p
        /\ cookies' = c
    /\ response' = NoResponse
    /\ log' = <<>>
    /\ pc' = "route"
    /\ UNCHANGED <<hops, concVars, blogVars, formVars>>

\* The path matches a pattern of config.matcher: the gate is to run.
RouteToGate ==
    /\ pc = "route"
    /\ matches(path)
    /\ pc' = "gate"
    /\ UNCHANGED <<path, cookies, response, log, hops, concVars, blogVars, formVars>>

\* The path matches no pattern: the gate is not run.
RouteBypass ==
    /\ pc = "route"
    /\ ~matches(path)
    /\ response' = Bypassed
    /\ pc' = "done"
    /\ UNCHANGED <<path, cookies, log, hops, concVars, blogVars, formVars>>

NextRouted == Arrive \/ RouteToGate \/ RouteBypass \/ Middleware \/ Deliver

SpecRouted == Init /\ [][NextRouted]_vars

\* ------------------------------------------------- a client following redirects

\* The most redirects a client follows before it gives up.
MaxHops == 3

\* A client sends a request of its own.
Visit ==
    /\ pc = "idle"
    /\ \E p \in Paths, c \in CookieStores :
        /\ path' = p
        /\ cookies' = c
    /\ response' = NoResponse
    /\ log' = <<>>
    /\ hops' = 0
    /\ pc' = "gate"
    /\ UNCHANGED <<concVars, blogVars, formVars>>

\* The client follows the redirect it was answered with: the same cookies, the
\* path of the redirect.
Follow ==
    /\ pc = "done"
    /\ response.kind = "redirect"
    /\ hops < MaxHops
    /\ path' = response.pathname
    /\ response' = NoResponse
    /\ log' = <<>>
    /\ hops' = hops + 1
    /\ pc' = "gate"
    /\ UNCHANGED <<cookies, concVars, blogVars, formVars>>

\* The client is done with the response it got.
Settle ==
    /\ pc = "done"
    /\ response.kind # "redirect" \/ hops = MaxHops
    /\ pc' = "idle"
    /\ path' = <<"/">>
    /\ cookies' = <<>>
    /\ response' = NoResponse
    /\ log' = <<>>
    /\ hops' = 0
    /\ UNCHANGED <<concVars, blogVars, formVars>>

NextFollow == Visit \/ Middleware \/ Follow \/ Settle

SpecFollow == Init /\ [][NextFollow]_vars


\* ---------------------------------------------------------------- properties

\* Request paths used as examples
AdminDashboard == ADMIN \o <<"/", "d", "a", "s", "h", "b", "o", "a", "r", "d">>

ApiAdminBlogs == API_ADMIN \o <<"/", "b", "l", "o", "g", "s">>

\* The classification of a path, as the decision table states it
ProtectedApi(p) == startsWith(p, API_ADMIN) /\ ~startsWith(p, API_ADMIN_LOGIN)

ProtectedUi(p) == startsWith(p, ADMIN) /\ p # ADMIN_LOGIN

\* The state of the session cookie in a cookie store
SessionAbsent(store) == "session" \notin DOMAIN store

SessionEmpty(store) == "session" \in DOMAIN store /\ store["session"] = ""

SessionNonEmpty(store) == "session" \in DOMAIN store /\ store["session"] # ""

\* The text {"error":"Unauthorized","code":"not_authenticated"}, token by token
UnauthorizedBody ==
    << <<"p", "{">>, <<"s", "error">>, <<"p", ":">>, <<"s", "Unauthorized">>, <<"p", ",">>,
       <<"s", "code">>, <<"p", ":">>, <<"s", "not_authenticated">>, <<"p", "}">> >>

Is401(r) ==
    /\ r.kind = "response"
    /\ r.status = 401
    /\ DOMAIN r.headers = {"Content-Type"}
    /\ r.headers["Content-Type"] = "application/json"
    /\ r.body = UnauthorizedBody

IsRedirectToLogin(r) == r.kind = "redirect" /\ r.pathname = ADMIN_LOGIN

IsPassThrough(r) == r.kind = "next"

\* C1: a request to a protected-api path whose session cookie is absent or
\* empty is answered 401, Content-Type application/json, with the body
\* {"error":"Unauthorized","code":"not_authenticated"}; never passed through
\* and never redirected.
C1_ApiUnauthenticated401 ==
    (pc = "done" /\ ProtectedApi(path) /\ (SessionAbsent(cookies) \/ SessionEmpty(cookies)))
        => (Is401(response) /\ ~IsPassThrough(response) /\ ~IsRedirectToLogin(response))

C1_Witness ==
    pc = "done" /\ path = ApiAdminBlogs /\ SessionAbsent(cookies) /\ Is401(response)

\* C2: a request to a protected-ui path whose session cookie is absent or
\* empty is redirected to '/admin/login'; never passed through and never
\* answered 401.
C2_UiUnauthenticatedRedirect ==
    (pc = "done" /\ ProtectedUi(path) /\ (SessionAbsent(cookies) \/ SessionEmpty(cookies)))
        => (IsRedirectToLogin(response) /\ ~IsPassThrough(response) /\ response.kind # "response")

C2_Witness ==
    pc = "done" /\ path = AdminDashboard /\ SessionAbsent(cookies)
        /\ IsRedirectToLogin(response)

\* C3: a request to a protected path that carries a non-empty session cookie
\* is passed through: never redirected, never answered 401.
C3_AuthenticatedPassThrough ==
    (pc = "done" /\ (ProtectedUi(path) \/ ProtectedApi(path)) /\ SessionNonEmpty(cookies))
        => IsPassThrough(response)

C3_Witness ==
    /\ pc = "done"
    /\ path \in {AdminDashboard, ApiAdminBlogs}
    /\ SessionNonEmpty(cookies)
    /\ IsPassThrough(response)

\* C4: a request whose path starts neither with '/admin' nor with '/api/admin'
\* is passed through, whatever its cookies.
C4_PublicPassThrough ==
    (pc = "done" /\ ~startsWith(path, ADMIN) /\ ~startsWith(path, API_ADMIN))
        => IsPassThrough(response)

C4_Witness ==
    /\ pc = "done"
    /\ path = <<"/", "a", "p", "i", "/", "X">>
    /\ SessionAbsent(cookies)
    /\ IsPassThrough(response)

\* C5: a request to '/admin/login' or to '/api/admin/login' is passed through,
\* whatever its cookies.
C5_LoginPassThrough ==
    (pc = "done" /\ path \in {ADMIN_LOGIN, API_ADMIN_LOGIN}) => IsPassThrough(response)

C5_Witness ==
    pc = "done" /\ path = ADMIN_LOGIN /\ SessionAbsent(cookies) /\ IsPassThrough(response)

\* A cookie store with the session cookie taken out, and with it set to v
WithoutSession(store) == [n \in DOMAIN store \ {"session"} |-> store[n]]

WithSession(store, v) ==
    [n \in DOMAIN store \cup {"session"} |-> IF n = "session" THEN v ELSE store[n]]

\* The answer the gate gives to a request it does not take to be authenticated
NotAuthenticatedOutcome(p, r) ==
    /\ ProtectedUi(p) => IsRedirectToLogin(r)
    /\ ProtectedApi(p) => Is401(r)
    /\ ~IsPassThrough(r)

\* C6: on a protected path the request is passed as authenticated exactly when
\* a cookie named 'session' is present with a non-empty value; an empty
\* 'session' cookie gets the decision of the same request without it, and
\* cookies of any other name do not authenticate.
C6_AuthenticatedIffSessionNonEmpty ==
    (pc = "done" /\ (ProtectedUi(path) \/ ProtectedApi(path))) =>
        /\ IsPassThrough(response) <=> SessionNonEmpty(cookies)
        /\ SessionEmpty(cookies) => response = middleware(path, WithoutSession(cookies))
        /\ SessionAbsent(cookies) => NotAuthenticatedOutcome(path, response)

C6_Witness ==
    /\ pc = "done"
    /\ path = AdminDashboard
    /\ SessionEmpty(cookies)
    /\ "token" \in DOMAIN cookies /\ cookies["token"] = "tok-issued"
    /\ IsRedirectToLogin(response)

\* C7: a path that begins with '/admin' or '/api/admin' where the prefix is
\* followed neither by '/' nor by the end of the path is passed through,
\* whatever its cookies.
SiblingOf(p, prefix) ==
    startsWith(p, prefix) /\ Len(p) > Len(prefix) /\ p[Len(prefix) + 1] # "/"

C7_NoSiblingMatch ==
    (pc = "done" /\ (SiblingOf(path, ADMIN) \/ SiblingOf(path, API_ADMIN)))
        => IsPassThrough(response)

\* C8: the gate decides every request: whenever a request waits, the gate can
\* run, and what it returns is one of pass-through, the 401 JSON response and
\* the redirect to '/admin/login'.
C8_Total ==
    /\ pc = "gate" => ENABLED Middleware
    /\ pc = "done" =>
        \/ IsPassThrough(response)
        \/ response.kind = "response" /\ Is401(response)
        \/ response.kind = "redirect" /\ IsRedirectToLogin(response)

C8_Witness ==
    /\ pc = "done"
    /\ path = API_ADMIN \o <<"2">>
    /\ SessionNonEmpty(cookies)
    /\ cookies["session"] = "%%garbage"
    /\ IsPassThrough(response)

\* C9: the decision does not depend on what a non-empty session cookie holds:
\* the same request with any other non-empty session value, a forged one
\* included, gets the same decision, and on a protected path it is pass-through.
C9_ValueIndependent ==
    (pc = "done" /\ SessionNonEmpty(cookies)) =>
        /\ \A v \in CookieValues \ {""} : middleware(path, WithSession(cookies, v)) = response
        /\ (ProtectedUi(path) \/ ProtectedApi(path)) => IsPassThrough(response)

C9_Witness ==
    /\ pc = "done"
    /\ path = ApiAdminBlogs
    /\ SessionNonEmpty(cookies)
    /\ cookies["session"] = "tok-forged"
    /\ IsPassThrough(response)

\* Session cookie values that are not a well-formed token
MalformedValues == {"", "%%garbage"}

\* C10 as stated: on a protected path a request with a malformed session
\* cookie gets the not-authenticated outcome, the one the same request gets
\* without the cookie.
C10_MalformedFailsClosed ==
    (pc = "done" /\ (ProtectedUi(path) \/ ProtectedApi(path))
        /\ ~SessionAbsent(cookies) /\ cookies["session"] \in MalformedValues) =>
        /\ NotAuthenticatedOutcome(path, response)
        /\ response = middleware(path, WithoutSession(cookies))

\* C10 as amended: on a protected path a request with an empty session cookie
\* and the same request without the cookie both get the not-authenticated
\* outcome (redirect for protected-ui, 401 for protected-api); a malformed
\* session cookie with a non-empty value is passed through.
C10_EmptySameAsMissing ==
    (pc = "done" /\ (ProtectedUi(path) \/ ProtectedApi(path)) /\ ~SessionAbsent(cookies)) =>
        /\ cookies["session"] = "" =>
            /\ NotAuthenticatedOutcome(path, response)
            /\ NotAuthenticatedOutcome(path, middleware(path, WithoutSession(cookies)))
            /\ response = middleware(path, WithoutSession(cookies))
        /\ cookies["session"] \in MalformedValues \ {""} => IsPassThrough(response)

C10_Witness ==
    /\ pc = "done"
    /\ path = ApiAdminBlogs
    /\ SessionEmpty(cookies)
    /\ Is401(response)

\* C11 as stated: every decision, pass-through on a public path included, is
\* accompanied by exactly one diagnostic record holding the request's path and
\* the authentication outcome the decision used.
C11_OneRecordPerDecision ==
    pc = "done" =>
        /\ Len(log) = 1
        /\ log[1].path = path
        /\ log[1].auth = (IF SessionNonEmpty(cookies) THEN "Yes" ELSE "No")

\* C11 as amended: a decision on a protected path is accompanied by exactly one
\* record, holding the request's path and the outcome the decision used ("Yes"
\* exactly when the request is passed through); a decision on a public path is
\* accompanied by none; and the decision is the one of the decision table
\* whether or not a record is written.
C11_OneRecordPerProtectedDecision ==
    pc = "done" =>
        /\ (ProtectedUi(path) \/ ProtectedApi(path)) =>
            /\ Len(log) = 1
            /\ log[1].path = path
            /\ log[1].auth \in {"Yes", "No"}
            /\ log[1].auth = "Yes" <=> SessionNonEmpty(cookies)
            /\ log[1].auth = "Yes" <=> IsPassThrough(response)
        /\ ~(ProtectedUi(path) \/ ProtectedApi(path)) =>
            /\ log = <<>>
            /\ IsPassThrough(response)

C11_Witness ==
    /\ pc = "done"
    /\ path = ApiAdminBlogs \o <<"/", "2">>
    /\ SessionEmpty(cookies)
    /\ Len(log) = 1
    /\ log[1].auth = "No"

\* C13: a path falls in exactly one of the classes public, protected-ui and
\* protected-api: no path satisfies isAdminUIPath and isAdminApiPath together,
\* and the gate takes the public branch (early return, nothing written, passed
\* through whatever the cookies) exactly when the path satisfies neither.
ClassesOf(p) ==
    {c \in {"public", "protected-ui", "protected-api"} :
        \/ c = "protected-ui" /\ isAdminUIPath(p)
        \/ c = "protected-api" /\ isAdminApiPath(p)
        \/ c = "public" /\ ~startsWith(p, ADMIN) /\ ~startsWith(p, API_ADMIN)
        \/ c = "public" /\ (p = ADMIN_LOGIN \/ startsWith(p, API_ADMIN_LOGIN))}

C13_ExactlyOneClass ==
    pc \in {"gate", "done"} =>
        /\ Cardinality(ClassesOf(path)) = 1
        /\ ~(isAdminUIPath(path) /\ isAdminApiPath(path))
        /\ pc = "done" =>
            ("public" \in ClassesOf(path) <=> (log = <<>> /\ IsPassThrough(response)
                                               /\ ~isAdminUIPath(path) /\ ~isAdminApiPath(path)))

C13_Witness ==
    /\ pc = "done"
    /\ path = API_ADMIN \o <<"/", "X">>
    /\ ClassesOf(path) = {"protected-api"}

\* C16: the UI login exemption is an exact match and the API one a prefix
\* match: a path that starts with '/admin' and differs from '/admin/login'
\* ('/admin/login/' and '/admin/login/X' included) is protected-ui, so without
\* a session it is redirected; a path that starts with '/api/admin/login'
\* ('/api/admin/login/X' and '/api/admin/loginX' included) is public and is
\* passed through without a cookie.
C16_LoginExemptions ==
    pc = "done" =>
        /\ (startsWith(path, ADMIN) /\ path # ADMIN_LOGIN) =>
            /\ isAdminUIPath(path)
            /\ ~SessionNonEmpty(cookies) => IsRedirectToLogin(response)
        /\ startsWith(path, API_ADMIN_LOGIN) =>
            /\ ~isAdminApiPath(path) /\ ~isAdminUIPath(path)
            /\ IsPassThrough(response)
            /\ log = <<>>

C16_Witness ==
    /\ pc = "done"
    /\ path = API_ADMIN_LOGIN \o <<"X">>
    /\ SessionAbsent(cookies)
    /\ IsPassThrough(response)

C16_WitnessUi ==
    /\ pc = "done"
    /\ path = ADMIN_LOGIN \o <<"/", "X">>
    /\ SessionAbsent(cookies)
    /\ IsRedirectToLogin(response)

\* A path that is the prefix itself or lies below it
Under(p, prefix) == p = prefix \/ startsWith(p, prefix \o <<"/">>)

\* C12: the gate runs only on requests matching '/admin/:path*' or
\* '/api/admin/:path*': a request whose path is not '/admin', '/admin/...',
\* '/api/admin' or '/api/admin/...' never reaches the gate and goes on to its
\* handler whatever its cookies, and no such path is redirected or answered 401.
C12_MatcherConfinesGate ==
    /\ (pc \in {"gate", "done"} /\ ~Under(path, ADMIN) /\ ~Under(path, API_ADMIN)) =>
        /\ pc = "done"
        /\ response = Bypassed
        /\ log = <<>>
    /\ (pc = "done" /\ response.kind \in {"redirect", "response"}) =>
        (Under(path, ADMIN) \/ Under(path, API_ADMIN))

C12_Witness ==
    /\ pc = "done"
    /\ path = ADMIN \o <<"2">>
    /\ SessionAbsent(cookies)
    /\ response = Bypassed

\* C14 as stated: from an unauthenticated request to any path, following the
\* gate's redirects ends, after at most one redirect, in a pass-through.
C14_EndsInPassThrough ==
    /\ hops <= 1
    /\ (pc = "done" /\ ~SessionNonEmpty(cookies) /\ response.kind # "redirect")
        => IsPassThrough(response)

\* C14 as amended: from an unauthenticated request to any path, following the
\* gate's redirects ends after at most one redirect: the request that follows
\* a redirect is for '/admin/login' and is passed through, and a request that
\* is not redirected is passed through or, on a protected-api path, answered
\* 401.
C14_NoRedirectLoop ==
    /\ hops <= 1
    /\ (pc \in {"gate", "done"} /\ hops = 1) => path = ADMIN_LOGIN
    /\ (pc = "done" /\ hops = 1) => IsPassThrough(response)
    /\ (pc = "done" /\ hops = 0 /\ response.kind # "redirect") =>
        \/ IsPassThrough(response)
        \/ ProtectedApi(path) /\ ~SessionNonEmpty(cookies) /\ Is401(response)

C14_Witness ==
    /\ pc = "done"
    /\ hops = 1
    /\ SessionAbsent(cookies)
    /\ path = ADMIN_LOGIN
    /\ IsPassThrough(response)

\* ------------------------------------------------- concurrent invocations

\* Requests the concurrent invocations are given
ConcPaths == {AdminDashboard, ApiAdminBlogs, ADMIN_LOGIN, <<"/", "b", "l", "o", "g">>}

ConcStores == UNION { [names -> {"", "tok-issued"}] : names \in SUBSET {"session"} }

\* The decision of an invocation that reads the cookies of the request held in
\* module scope by whichever invocation started first
gateDecision_sharedRequest(i, fl) == middleware(fl[i].path, fl[1].cookies)

\* The decision of the invocation in slot i: middleware reads its own
\* parameter `request` and local constants only
gateDecision(i, fl) == middleware(fl[i].path, fl[i].cookies)

\* The framework calls the gate with a request while others may be in progress.
CReceive(i) ==
    /\ inflight[i].pc = "idle"
    /\ \E p \in ConcPaths, c \in ConcStores :
        inflight' = [inflight EXCEPT ![i] =
                        [pc |-> "gate", path |-> p, cookies |-> c, response |-> NoResponse]]
    /\ UNCHANGED <<console, gateVars, blogVars, formVars>>

\* The invocation in slot i runs: the function is synchronous, so it runs from
\* its first statement to its return without another invocation in between.
\* The console is kept as the set of lines written to it.
CMiddleware(i) ==
    /\ inflight[i].pc = "gate"
    /\ inflight' = [inflight EXCEPT ![i].pc = "done",
                                    ![i].response = gateDecision(i, inflight)]
    /\ console' = console \cup
                    {middlewareLog(inflight[i].path, inflight[i].cookies)[k] :
                        k \in 1..Len(middlewareLog(inflight[i].path, inflight[i].cookies))}
    /\ UNCHANGED <<gateVars, blogVars, formVars>>

\* The framework takes the response of the invocation in slot i.
CDeliver(i) ==
    /\ inflight[i].pc = "done"
    /\ inflight' = [inflight EXCEPT ![i] = IdleSlot]
    /\ UNCHANGED <<console, gateVars, blogVars, formVars>>

NextConcurrent == \E i \in Slots : CReceive(i) \/ CMiddleware(i) \/ CDeliver(i)

SpecConcurrent == Init /\ [][NextConcurrent]_vars

\* The decision table of the gate
TableDecision(p, store) ==
    IF ProtectedApi(p) /\ ~SessionNonEmpty(store) THEN "401"
    ELSE IF ProtectedUi(p) /\ ~SessionNonEmpty(store) THEN "redirect"
    ELSE "pass"

DecisionName(r) ==
    IF IsPassThrough(r) THEN "pass"
    ELSE IF r.kind = "redirect" /\ IsRedirectToLogin(r) THEN "redirect"
    ELSE IF r.kind = "response" /\ Is401(r) THEN "401"
    ELSE "other"

\* C15: under any interleaving of concurrent invocations and after any history
\* of earlier requests, the decision of an invocation is the one the decision
\* table gives for its own path and session cookie, two invocations given the
\* same request decide alike, and a step of one invocation changes no
\* other invocation's request or decision.
C15_Independent ==
    /\ [](\A i \in Slots :
            inflight[i].pc = "done" =>
                /\ DecisionName(inflight[i].response) =
                        TableDecision(inflight[i].path, inflight[i].cookies)
                /\ \A j \in Slots :
                        (/\ inflight[j].pc = "done"
                         /\ inflight[j].path = inflight[i].path
                         /\ inflight[j].cookies = inflight[i].cookies)
                            => inflight[j].response = inflight[i].response)
    /\ [][\A i \in Slots :
            inflight'[i] # inflight[i] => \A j \in Slots \ {i} : inflight'[j] = inflight[j]]_vars

C15_Witness ==
    /\ inflight[1].pc = "done" /\ inflight[1].path = ApiAdminBlogs
    /\ SessionAbsent(inflight[1].cookies)
    /\ inflight[2].pc = "done" /\ inflight[2].path = ApiAdminBlogs
    /\ SessionNonEmpty(inflight[2].cookies)
    /\ DecisionName(inflight[1].response) = "401"
    /\ DecisionName(inflight[2].response) = "pass"
    /\ console # {}

\* ------------------------------------------------- the blog API

\* The most blog documents the store holds.
MaxBlogs == 2

\* '/api/blogs', the public collection
API_BLOGS == <<"/", "a", "p", "i", "/", "b", "l", "o", "g", "s">>

\* Document ids, one character each, and an id no document has
BlogIds == {ToString(i) : i \in 1..MaxBlogs}

RequestIds == BlogIds \cup {"0"}

\* Slugs of documents, and a slug no document has
Slugs == {"a", "b"}

RequestSlugs == Slugs \cup {"z"}

\* Cookie stores of API requests: no session cookie, the issued token, a forged one
ApiCookieStores ==
    {<<>>} \cup { [n \in {"session"} |-> v] : v \in {"tok-issued", "tok-forged"} }

\* JSON bodies of POST requests; "undefined" stands for a field the body lacks
PostBodies ==
    [published : {"undefined", "true", "false"},
     publishedAt : {"undefined", "bodydate"},
     author : {"undefined", "evil"},
     slug : Slugs]

\* JSON bodies of PUT requests
PutBodies ==
    [published : {"undefined", "true", "false"},
     publishedAt : {"undefined", "null"},
     author : {"undefined"},
     slug : {"undefined"}]

\* The store call that throws while a request is handled: none, or the first one
Faults == {"none", "throw"}

\* getSession() of lib/auth: the session of the request's cookie, <<>> for null.
\* Only the token issued at login belongs to a session.
getSession(store) ==
    IF cookieValue(store, SESSION) = <<"tok-issued">>
    THEN <<[user |-> [id |-> "u1"]]>>
    ELSE <<>>

\* JavaScript truthiness of a JSON value
jsTruthy(v) == v \notin {"undefined", "null", "false"}

\* NextResponse.json(data, {status})
NextResponseJson(data, status) == [kind |-> "json", status |-> status, body |-> data]

\* What a handler leaves behind: its response, the store and the store calls it made
Outcome(r, docs, calls) == [response |-> r, blogs |-> docs, calls |-> calls]

\* Blog.findById: <<>> for null
findById(docs, id) == IF id \in DOMAIN docs THEN <<docs[id]>> ELSE <<>>

\* The update of findByIdAndUpdate(id, body): the fields the body has replace the document's
applyUpdate(doc, b) ==
    [f \in DOMAIN doc |->
        IF f \in DOMAIN b /\ b[f] # "undefined" THEN b[f] ELSE doc[f]]

\* The _id the store gives a new document
newId(docs) ==
    ToString(CHOOSE i \in 1..MaxBlogs :
                /\ ToString(i) \notin DOMAIN docs
                /\ \A j \in 1..(i - 1) : ToString(j) \in DOMAIN docs)

\* new Blog({...body, author, publishedAt}) with the author taken from the body
newBlog_bodyAuthor(b, session) ==
    [slug |-> b.slug,
     published |-> b.published,
     author |-> IF b.author # "undefined" THEN b.author ELSE session.user.id,
     publishedAt |-> IF jsTruthy(b.published) THEN "now" ELSE "null"]

\* new Blog({...body, author: session.user.id, publishedAt: body.published ? new Date() : null})
newBlog(b, session) ==
    [slug |-> b.slug,
     published |-> b.published,
     author |-> session.user.id,
     publishedAt |-> IF jsTruthy(b.published) THEN "now" ELSE "null"]

\* GET /api/admin/blogs/[id]
AdminGET(id, store, docs, flt) ==
    IF getSession(store) = <<>>
    THEN Outcome(NextResponseJson([error |-> "Unauthorized"], 401), docs, <<>>)
    ELSE IF flt = "throw"
    THEN Outcome(NextResponseJson([error |-> "Failed to fetch blog"], 500), docs, <<"connectDB">>)
    ELSE IF findById(docs, id) = <<>>
    THEN Outcome(NextResponseJson([error |-> "Blog not found"], 404), docs,
                 <<"connectDB", "findById">>)
    ELSE Outcome(NextResponseJson(findById(docs, id)[1], 200), docs,
                 <<"connectDB", "findById">>)

\* PUT without the session check
AdminPUT_noSessionCheck(id, b, store, docs, flt) ==
    IF flt = "throw"
    THEN Outcome(NextResponseJson([error |-> "Failed to update blog"], 500), docs, <<"connectDB">>)
    ELSE IF findById(docs, id) = <<>>
    THEN Outcome(NextResponseJson([error |-> "Blog not found"], 404), docs,
                 <<"connectDB", "findByIdAndUpdate">>)
    ELSE Outcome(NextResponseJson(applyUpdate(docs[id], b), 200),
                 [docs EXCEPT ![id] = applyUpdate(docs[id], b)],
                 <<"connectDB", "findByIdAndUpdate">>)

\* PUT /api/admin/blogs/[id]
AdminPUT(id, b, store, docs, flt) ==
    IF getSession(store) = <<>>
    THEN Outcome(NextResponseJson([error |-> "Unauthorized"], 401), docs, <<>>)
    ELSE IF flt = "throw"
    THEN Outcome(NextResponseJson([error |-> "Failed to update blog"], 500), docs, <<"connectDB">>)
    ELSE IF findById(docs, id) = <<>>
    THEN Outcome(NextResponseJson([error |-> "Blog not found"], 404), docs,
                 <<"connectDB", "findByIdAndUpdate">>)
    ELSE Outcome(NextResponseJson(applyUpdate(docs[id], b), 200),
                 [docs EXCEPT ![id] = applyUpdate(docs[id], b)],
                 <<"connectDB", "findByIdAndUpdate">>)

\* DELETE /api/admin/blogs/[id]
AdminDELETE(id, store, docs, flt) ==
    IF getSession(store) = <<>>
    THEN Outcome(NextResponseJson([error |-> "Unauthorized"], 401), docs, <<>>)
    ELSE IF flt = "throw"
    THEN Outcome(NextResponseJson([error |-> "Failed to delete blog"], 500), docs, <<"connectDB">>)
    ELSE IF findById(docs, id) = <<>>
    THEN Outcome(NextResponseJson([error |-> "Blog not found"], 404), docs,
                 <<"connectDB", "findByIdAndDelete">>)
    ELSE Outcome(NextResponseJson([success |-> "true"], 200),
                 [i \in DOMAIN docs \ {id} |-> docs[i]],
                 <<"connectDB", "findByIdAndDelete">>)

\* GET /api/admin/blogs: the documents found; their order (newest first) and
\* the selection of fields are left out, the document model holding no createdAt
AdminLIST(store, docs, flt) ==
    IF getSession(store) = <<>>
    THEN Outcome(NextResponseJson([error |-> "Unauthorized"], 401), docs, <<>>)
    ELSE IF flt = "throw"
    THEN Outcome(NextResponseJson([error |-> "Failed to fetch blogs"], 500), docs, <<"connectDB">>)
    ELSE Outcome(NextResponseJson({docs[i] : i \in DOMAIN docs}, 200), docs,
                 <<"connectDB", "find">>)

\* POST /api/admin/blogs
AdminPOST(b, store, docs, flt) ==
    IF getSession(store) = <<>>
    THEN Outcome(NextResponseJson([error |-> "Unauthorized"], 401), docs, <<>>)
    ELSE IF flt = "throw"
    THEN Outcome(NextResponseJson([error |-> "Failed to create blog"], 500), docs, <<"connectDB">>)
    ELSE Outcome(NextResponseJson(newBlog(b, getSession(store)[1]), 201),
                 [i \in DOMAIN docs \cup {newId(docs)} |->
                    IF i = newId(docs) THEN newBlog(b, getSession(store)[1]) ELSE docs[i]],
                 <<"connectDB", "save">>)

\* The documents Blog.findOne({slug}) may return, the published filter forgotten
findOnePublished_anyDraft(docs, slug) ==
    {docs[i] : i \in {j \in DOMAIN docs : docs[j].slug = slug}}

\* The documents Blog.findOne({slug, published: true}) may return
findOnePublished(docs, slug) ==
    {docs[i] : i \in {j \in DOMAIN docs : docs[j].slug = slug /\ docs[j].published = "true"}}

\* GET /api/blogs/[slug] when the store answers with the document found
PublicGET(found) ==
    IF found = <<>>
    THEN Outcome(NextResponseJson([error |-> "Blog not found"], 404), blogs,
                 <<"connectDB", "findOne">>)
    ELSE Outcome(NextResponseJson(found[1], 200), blogs, <<"connectDB", "findOne">>)

\* The requests of the blog API: method, path and body
ApiRequests ==
    {<<"GET", ApiAdminBlogs, NoBody>>}
    \cup {<<"POST", ApiAdminBlogs, b>> : b \in PostBodies}
    \cup {<<m, ApiAdminBlogs \o <<"/", id>>, NoBody>> : m \in {"GET", "DELETE"}, id \in RequestIds}
    \cup {<<"PUT", ApiAdminBlogs \o <<"/", id>>, b>> : id \in RequestIds, b \in PutBodies}
    \cup {<<"GET", API_BLOGS \o <<"/", sl>>, NoBody>> : sl \in RequestSlugs}

\* The last segment of an item path: params.id, params.slug
lastSegment(p) == p[Len(p)]

IsAdminCollection(p) == p = ApiAdminBlogs

IsAdminItem(p) == startsWith(p, ApiAdminBlogs \o <<"/">>) /\ Len(p) = Len(ApiAdminBlogs) + 2

IsPublicItem(p) == startsWith(p, API_BLOGS \o <<"/">>) /\ Len(p) = Len(API_BLOGS) + 2

\* A request for the blog API arrives; a POST is taken while the store has room.
BArrive ==
    /\ pc = "idle"
    /\ \E rq \in ApiRequests, c \in ApiCookieStores, flt \in Faults :
        /\ rq[1] = "POST" => Cardinality(DOMAIN blogs) < MaxBlogs
        /\ method' = rq[1]
        /\ path' = rq[2]
        /\ body' = rq[3]
        /\ cookies' = c
        /\ fault' = flt
    /\ response' = NoResponse
    /\ log' = <<>>
    /\ storeCalls' = <<>>
    /\ pc' = "route"
    /\ UNCHANGED <<hops, blogs, concVars, formVars>>

\* The path matches config.matcher: the gate runs, and the request goes on to
\* its handler when the gate passes it.
BGate ==
    /\ pc = "route"
    /\ matches(path)
    /\ log' = log \o middlewareLog(path, cookies)
    /\ IF middleware(path, cookies) = NextResponseNext
       THEN pc' = "handler" /\ response' = response
       ELSE pc' = "done" /\ response' = middleware(path, cookies)
    /\ UNCHANGED <<path, cookies, hops, concVars, blogVars, formVars>>

\* The path matches no pattern of config.matcher: the request goes to its handler.
BBypass ==
    /\ pc = "route"
    /\ ~matches(path)
    /\ pc' = "handler"
    /\ UNCHANGED <<path, cookies, response, log, hops, concVars, blogVars, formVars>>

\* A handler ran: its response, the store it leaves, the store calls it made.
Handled(out) ==
    /\ response' = out.response
    /\ blogs' = out.blogs
    /\ storeCalls' = out.calls
    /\ pc' = "done"
    /\ UNCHANGED <<path, cookies, log, hops, method, body, fault, concVars, formVars>>

HandleAdminGET ==
    /\ pc = "handler" /\ IsAdminItem(path) /\ method = "GET"
    /\ Handled(AdminGET(lastSegment(path), cookies, blogs, fault))

HandleAdminPUT ==
    /\ pc = "handler" /\ IsAdminItem(path) /\ method = "PUT"
    /\ Handled(AdminPUT(lastSegment(path), body, cookies, blogs, fault))

HandleAdminDELETE ==
    /\ pc = "handler" /\ IsAdminItem(path) /\ method = "DELETE"
    /\ Handled(AdminDELETE(lastSegment(path), cookies, blogs, fault))

HandleAdminLIST ==
    /\ pc = "handler" /\ IsAdminCollection(path) /\ method = "GET"
    /\ Handled(AdminLIST(cookies, blogs, fault))

HandleAdminPOST ==
    /\ pc = "handler" /\ IsAdminCollection(path) /\ method = "POST"
    /\ Handled(AdminPOST(body, cookies, blogs, fault))

\* GET /api/blogs/[slug]: the store throws, or answers with one of the
\* documents that match, or with null when none does
HandlePublicGET ==
    /\ pc = "handler" /\ IsPublicItem(path) /\ method = "GET"
    /\ IF fault = "throw"
       THEN Handled(Outcome(NextResponseJson([error |-> "Failed to fetch blog"], 500),
                            blogs, <<"connectDB">>))
       ELSE IF findOnePublished(blogs, lastSegment(path)) = {}
       THEN Handled(PublicGET(<<>>))
       ELSE \E doc \in findOnePublished(blogs, lastSegment(path)) : Handled(PublicGET(<<doc>>))

\* The response is sent.
BFinish ==
    /\ pc = "done"
    /\ pc' = "idle"
    /\ path' = <<"/">>
    /\ cookies' = <<>>
    /\ response' = NoResponse
    /\ log' = <<>>
    /\ method' = "NONE"
    /\ body' = NoBody
    /\ fault' = "none"
    /\ storeCalls' = <<>>
    /\ UNCHANGED <<hops, blogs, concVars, formVars>>

NextBlogs ==
    \/ BArrive \/ BGate \/ BBypass
    \/ HandleAdminGET \/ HandleAdminPUT \/ HandleAdminDELETE
    \/ HandleAdminLIST \/ HandleAdminPOST \/ HandlePublicGET
    \/ BFinish

SpecBlogs == Init /\ [][NextBlogs]_vars

\* A path of the admin blog handlers
IsAdminBlogPath(p) == IsAdminCollection(p) \/ IsAdminItem(p)

UnauthorizedJson(r) ==
    r.kind = "json" /\ r.status = 401 /\ r.body = [error |-> "Unauthorized"]

\* C17: an admin blog handler (GET, PUT, DELETE on an id, GET and POST on the
\* collection) reached by a request for which getSession() yields no session
\* answers 401 {error: 'Unauthorized'} without having connected to or queried
\* the store, a forged cookie that passed the gate included; and the stored
\* blogs change only in a request for which getSession() yields a session.
C17_HandlersRequireSession ==
    /\ [](  (pc = "done" /\ IsAdminBlogPath(path) /\ getSession(cookies) = <<>>) =>
                /\ storeCalls = <<>>
                /\ \/ response.kind = "response" /\ Is401(response)
                   \/ response.kind = "json" /\ UnauthorizedJson(response)
                /\ SessionNonEmpty(cookies) => UnauthorizedJson(response)  )
    /\ [][blogs' # blogs => (IsAdminBlogPath(path) /\ getSession(cookies) # <<>>)]_vars

C17_Witness ==
    /\ pc = "done"
    /\ method = "PUT"
    /\ IsAdminItem(path)
    /\ lastSegment(path) \in DOMAIN blogs
    /\ body.published = "true"
    /\ cookies = [n \in {"session"} |-> "tok-forged"]
    /\ UnauthorizedJson(response)
    /\ log = <<[path |-> path, auth |-> "Yes"]>>

\* Whether the store holds a published document with this slug
HasPublished(docs, slug) ==
    \E i \in DOMAIN docs : docs[i].slug = slug /\ docs[i].published = "true"

NotFoundJson(r) ==
    r.kind = "json" /\ r.status = 404 /\ r.body = [error |-> "Blog not found"]

\* C18 as stated: GET /api/blogs/[slug] answers with a document only if it is
\* a stored one with that slug and published = true, and answers 404
\* {error: 'Blog not found'} for a slug of which no published document is
\* stored; no session is needed.
C18_PublicGetNeverDraft ==
    (pc = "done" /\ IsPublicItem(path)) =>
        IF HasPublished(blogs, lastSegment(path))
        THEN /\ response.status = 200
             /\ response.body \in {blogs[i] : i \in DOMAIN blogs}
             /\ response.body.slug = lastSegment(path)
             /\ response.body.published = "true"
        ELSE NotFoundJson(response)

\* C18 as amended: the same, unless connecting to or querying the store throws:
\* the answer is then 500 {error: 'Failed to fetch blog'}. In no case is an
\* unpublished document returned.
C18_PublicGetNeverDraftUnlessThrow ==
    (pc = "done" /\ IsPublicItem(path)) =>
        /\ response.kind = "json"
        /\ response.status \in {200, 404, 500}
        /\ response.status = 200 =>
            /\ response.body \in {blogs[i] : i \in DOMAIN blogs}
            /\ response.body.slug = lastSegment(path)
            /\ response.body.published = "true"
        /\ response.status = 500 <=> fault = "throw"
        /\ response.status = 500 => response.body = [error |-> "Failed to fetch blog"]
        /\ fault = "none" =>
            IF HasPublished(blogs, lastSegment(path))
            THEN response.status = 200
            ELSE NotFoundJson(response)

C18_Witness ==
    /\ pc = "done"
    /\ IsPublicItem(path)
    /\ SessionAbsent(cookies)
    /\ fault = "none"
    /\ \E i \in DOMAIN blogs : blogs[i].slug = lastSegment(path) /\ blogs[i].published # "true"
    /\ ~HasPublished(blogs, lastSegment(path))
    /\ NotFoundJson(response)

\* C19 as stated: a POST to the admin collection with a valid session is
\* answered 201 with the created blog, whose author is the session user's id
\* and whose publishedAt is non-null exactly when the body's published is
\* truthy, whatever author and publishedAt the body carries.
C19_PostCreates ==
    (pc = "done" /\ method = "POST" /\ IsAdminCollection(path) /\ getSession(cookies) # <<>>) =>
        /\ response.kind = "json"
        /\ response.status = 201
        /\ response.body \in {blogs[i] : i \in DOMAIN blogs}
        /\ response.body.author = getSession(cookies)[1].user.id
        /\ response.body.publishedAt # "null" <=> body.published = "true"

\* C19 as amended: the same, unless connecting to the store or saving throws:
\* the answer is then 500 {error: 'Failed to create blog'} and nothing was saved.
C19_PostCreatesUnlessThrow ==
    (pc = "done" /\ method = "POST" /\ IsAdminCollection(path) /\ getSession(cookies) # <<>>) =>
        /\ response.kind = "json"
        /\ fault = "none" =>
            /\ response.status = 201
            /\ response.body \in {blogs[i] : i \in DOMAIN blogs}
            /\ response.body.author = getSession(cookies)[1].user.id
            /\ response.body.author = "u1"
            /\ response.body.publishedAt # "null" <=> body.published = "true"
            /\ response.body.publishedAt \in {"null", "now"}
            /\ "save" \in {storeCalls[k] : k \in 1..Len(storeCalls)}
        /\ fault = "throw" =>
            /\ response.status = 500
            /\ response.body = [error |-> "Failed to create blog"]
            /\ "save" \notin {storeCalls[k] : k \in 1..Len(storeCalls)}

C19_Witness ==
    /\ pc = "done"
    /\ method = "POST"
    /\ fault = "none"
    /\ body.author = "evil"
    /\ body.publishedAt = "bodydate"
    /\ body.published = "false"
    /\ response.kind = "json"
    /\ response.status = 201
    /\ response.body.author = "u1"
    /\ response.body.publishedAt = "null"

\* C20: every stored blog with published = true has a non-null publishedAt,
\* after any sequence of POST and PUT requests.
C20_PublishedHasDate ==
    \A i \in DOMAIN blogs : blogs[i].published = "true" => blogs[i].publishedAt # "null"

\* ---------------------------------------------------------------- blog forms
\* The create form (admin/blogs/create/page.tsx) and the edit form (EditBlog).

\* What the user can type into the excerpt input and the rich text editor, as
\* characters.
Texts == {<<>>, <<"x">>}

\* What the user can type into the title input.
TitleTexts == {<<>>, <<" ">>, <<"x">>}

\* What the user can type into the tags input: not what tags.join(', ') gives.
TagTexts == {<<"a", ",", "b">>}

\* The inputs whose onChange is handleChange that the user types into; the slug
\* input is left to the create form's effect.
ChangeNames == {"title", "excerpt", "tags"}

\* What the user can type into the input called name.
TextsFor(name) ==
    IF name = "tags" THEN TagTexts ELSE IF name = "title" THEN TitleTexts ELSE Texts

\* The files the user can pick: type is the MIME type's first part, size is in bytes.
FiveMB == 5 * 1024 * 1024

Files == [type : {"image", "text"}, size : {1024, FiveMB + 1}]

\* The URL uploadImage resolves to.
UploadedUrl == <<"v">>

\* name in obj
has(obj, name) == \E i \in 1..Len(obj) : obj[i][1] = name

\* obj[name], for a name obj has
valueOf(obj, name) == obj[CHOOSE i \in 1..Len(obj) : obj[i][1] = name][3]

\* {...obj, [name]: value}: the key keeps its place, a new key goes last
spread(obj, name, type, value) ==
    IF has(obj, name)
    THEN [i \in 1..Len(obj) |-> IF obj[i][1] = name THEN <<name, type, value>> ELSE obj[i]]
    ELSE Append(obj, <<name, type, value>>)

RECURSIVE trimStart(_)
trimStart(s) == IF s # <<>> /\ Head(s) = " " THEN trimStart(Tail(s)) ELSE s

RECURSIVE trimEnd(_)
trimEnd(s) == IF s # <<>> /\ s[Len(s)] = " " THEN trimEnd(SubSeq(s, 1, Len(s) - 1)) ELSE s

\* String.prototype.trim
trim(s) == trimEnd(trimStart(s))

\* s.split(',')
RECURSIVE split(_)
split(s) ==
    IF \A i \in 1..Len(s) : s[i] # ","
    THEN <<s>>
    ELSE LET k == CHOOSE i \in 1..Len(s) : s[i] = "," /\ \A j \in 1..(i - 1) : s[j] # ","
         IN  <<SubSeq(s, 1, k - 1)>> \o split(SubSeq(s, k + 1, Len(s)))

\* formData.tags.split(',').map(tag => tag.trim()).filter(Boolean)
parseTags(s) ==
    LET parts == split(s)
        trimmed == [i \in 1..Len(parts) |-> trim(parts[i])]
    IN  SelectSeq(trimmed, LAMBDA t : t # <<>>)

\* tags.join(', ')
RECURSIVE join(_)
join(tags) ==
    IF tags = <<>> THEN <<>>
    ELSE IF Len(tags) = 1 THEN tags[1]
    ELSE tags[1] \o <<",", " ">> \o join(Tail(tags))

\* slugify(title, {lower: true, strict: true}), for the texts of TitleTexts: the
\* surrounding spaces go and the letters stay
slugify(s) == trim(s)

\* {...blog, tags: Array.isArray(blog.tags) ? blog.tags.join(', ') : ''}
formatBlog(blog) ==
    spread(blog, "tags", "s",
           IF has(blog, "tags") /\ blog[CHOOSE i \in 1..Len(blog) : blog[i][1] = "tags"][2] = "a"
           THEN join(valueOf(blog, "tags"))
           ELSE <<>>)

\* JSON.stringify of an object, or of null given as <<>> for an optional
\* <<obj>>: the text as tokens <<kind, characters>>, "p" punctuation, "s" a
\* quoted string, "b" a boolean literal
JSONStringifyObject(opt) ==
    IF opt = <<>>
    THEN << <<"p", <<"null">>>> >>
    ELSE LET obj == opt[1] IN
         << <<"p", <<"{">>>> >> \o
         [i \in 1..(4 * Len(obj)) |->
             IF i % 4 = 1 THEN <<"s", <<obj[(i + 3) \div 4][1]>>>>
             ELSE IF i % 4 = 2 THEN <<"p", <<":">>>>
             ELSE IF i % 4 = 3 THEN <<obj[(i + 3) \div 4][2], obj[(i + 3) \div 4][3]>>
             ELSE IF i = 4 * Len(obj) THEN <<"p", <<"}">>>>
             ELSE <<"p", <<",">>>>]

\* hasChanges without the null check
hasChanges_noNullCheck(fd, od) ==
    JSONStringifyObject(<<fd>>) # JSONStringifyObject(od)

\* hasChanges(): false while originalData is null, else whether the two
\* serialisations differ
hasChanges(fd, od) ==
    IF od = <<>> THEN FALSE
    ELSE JSONStringifyObject(<<fd>>) # JSONStringifyObject(od)

\* The errors validateForm collects, as <<field, message>> pairs.
validationErrorsOf(fd, img) ==
    {<<name, "required">> : name \in
        {n \in {"title", "slug", "content", "excerpt"} : trim(valueOf(fd, n)) = <<>>}}
    \cup (IF img = <<>> /\ valueOf(fd, "coverImage") = <<>>
          THEN {<<"coverImage", "required">>} ELSE {})

\* validateForm(): whether there are no errors
validateForm(fd, img) == validationErrorsOf(fd, img) = {}

\* delete newErrors[name]
deleteError(errors, name) == {e \in errors : e[1] # name}

\* {...prev, coverImage: message}
withError(errors, name, message) == deleteError(errors, name) \cup {<<name, message>>}

\* useState's initial value of error and success: '' in the create form, null
\* ("null") in the edit form
NoMessage(p) == IF p = "edit" THEN "null" ELSE ""

\* JavaScript truthiness of a message state
isSet(message) == message \notin {"", "null"}

\* isUploading of useImageUpload: true while uploadImage is in flight
isUploading == submitPc = "upload"

\* A blog document as the admin API returns it, in the order of its keys.
ServerBlog(text, cover, tags, published) ==
    << <<"_id", "s", <<"1">>>>, <<"title", "s", text>>, <<"slug", "s", text>>,
       <<"content", "s", text>>, <<"excerpt", "s", text>>,
       <<"coverImage", "s", cover>>, <<"tags", "a", tags>>,
       <<"published", "b", published>> >>

\* The documents GET /api/admin/blogs/[id] can answer with.
LoadedBlogs ==
    {ServerBlog(<<"x">>, <<"u">>, << <<"a">>, <<"b">> >>, <<"false">>),
     ServerBlog(<<"x">>, <<>>, <<>>, <<"true">>)}

\* How fetchBlog's request can settle.
LoadReplies ==
    {[status |-> "200", blog |-> b] : b \in LoadedBlogs} \cup
    {[status |-> s, blog |-> <<>>] : s \in {"401", "404", "500", "rejected"}}

\* How uploadImage can settle.
UploadResults == {[ok |-> TRUE, url |-> UploadedUrl], [ok |-> FALSE, url |-> <<>>]}

\* {...formData, coverImage: coverImageUrl, tags}
updateData(cl) ==
    spread(spread(cl.formData, "coverImage", "s", cl.coverImageUrl),
           "tags", "a", parseTags(valueOf(cl.formData, "tags")))

\* How the POST or PUT request can settle: rejected, or answered with a status
\* that is ok or not and a body that is a blog, an {error} object (error "" when
\* the object has no error) or no JSON at all ("unparsable").
SubmitReplies(cl) ==
    {[status |-> "ok", error |-> "", blog |-> b] : b \in LoadedBlogs \cup {updateData(cl)}} \cup
    {[status |-> "ok", error |-> "unparsable", blog |-> <<>>]} \cup
    {[status |-> "notOk", error |-> e, blog |-> <<>>] : e \in {"Unauthorized", "", "unparsable"}} \cup
    {[status |-> "rejected", error |-> "", blog |-> <<>>]}

\* The component unmounts: its state is gone, the next mount starts afresh.
Unmount ==
    /\ page' = "none"
    /\ formData' = InitialFormData
    /\ originalData' = <<>>
    /\ imageFile' = <<>>
    /\ isSubmitting' = FALSE
    /\ isLoading' = FALSE
    /\ error' = ""
    /\ success' = ""
    /\ validationErrors' = {}
    /\ submitPc' = "none"
    /\ closure' = <<>>
    /\ netCalls' = <<>>
    /\ submitted' = "never"

\* The create form mounts with its useState values.
OpenCreate ==
    /\ page = "none"
    /\ page' = "create"
    /\ UNCHANGED <<formData, originalData, imageFile, isSubmitting, isLoading, error,
                   success, validationErrors, submitPc, closure, netCalls, submitted>>
    /\ UNCHANGED <<gateVars, concVars, blogVars>>

\* The edit form mounts and its effect calls fetchBlog, which runs up to the
\* await of fetch: setIsLoading(true), setError(null).
OpenEdit ==
    /\ page = "none"
    /\ page' = "edit"
    /\ isLoading' = TRUE
    /\ error' = "null"
    /\ success' = "null"
    /\ UNCHANGED <<formData, originalData, imageFile, isSubmitting, validationErrors,
                   submitPc, closure, netCalls, submitted>>
    /\ UNCHANGED <<gateVars, concVars, blogVars>>

\* fetchBlog's message for a reply that is not a blog
fetchBlogError(status) ==
    IF status = "404" THEN "Blog post not found"
    ELSE IF status = "rejected" THEN "Failed to fetch"
    ELSE "Error 500: Internal Server Error"

\* fetchBlog resumes after its fetch settled.
FetchBlogSettles ==
    /\ page = "edit"
    /\ isLoading
    /\ \E reply \in LoadReplies :
        IF reply.status = "401"
        THEN Unmount
        ELSE /\ isLoading' = FALSE
             /\ IF reply.status = "200"
                THEN /\ formData' = formatBlog(reply.blog)
                     /\ originalData' = <<formatBlog(reply.blog)>>
                     /\ UNCHANGED error
                ELSE /\ error' = fetchBlogError(reply.status)
                     /\ UNCHANGED <<formData, originalData>>
             /\ UNCHANGED <<page, imageFile, isSubmitting, success, validationErrors,
                            submitPc, closure, netCalls, submitted>>
    /\ UNCHANGED <<gateVars, concVars, blogVars>>

\* The form is on screen: the edit form renders only a spinner while isLoading.
Rendered == page = "create" \/ (page = "edit" /\ ~isLoading)

\* disabled={isSubmitting} of the create form's inputs; the edit form's inputs
\* have no disabled attribute
InputDisabled == page = "create" /\ isSubmitting

\* What the create form's effect on formData.title makes of the slug.
withGeneratedSlug(p, fd) ==
    IF p = "create" /\ valueOf(fd, "title") # <<>>
    THEN spread(fd, "slug", "s", slugify(valueOf(fd, "title")))
    ELSE fd

\* handleChange: the user types value into the input called name.
handleChange ==
    /\ Rendered
    /\ ~InputDisabled
    /\ \E name \in ChangeNames :
       \E value \in TextsFor(name) :
        /\ formData' = IF name = "title"
                       THEN withGeneratedSlug(page, spread(formData, name, "s", value))
                       ELSE spread(formData, name, "s", value)
        /\ validationErrors' = deleteError(validationErrors, name)
    /\ UNCHANGED <<page, originalData, imageFile, isSubmitting, isLoading, error, success,
                   submitPc, closure, netCalls, submitted>>
    /\ UNCHANGED <<gateVars, concVars, blogVars>>

\* handleContentChange: the user edits the rich text, which is never disabled.
handleContentChange ==
    /\ Rendered
    /\ \E content \in Texts :
        /\ formData' = spread(formData, "content", "s", content)
        /\ validationErrors' = deleteError(validationErrors, "content")
    /\ UNCHANGED <<page, originalData, imageFile, isSubmitting, isLoading, error, success,
                   submitPc, closure, netCalls, submitted>>
    /\ UNCHANGED <<gateVars, concVars, blogVars>>

\* handleCheckboxChange: the user ticks or unticks published.
handleCheckboxChange ==
    /\ Rendered
    /\ ~InputDisabled
    /\ \E checked \in {<<"true">>, <<"false">>} :
        formData' = spread(formData, "published", "b", checked)
    /\ UNCHANGED <<page, originalData, imageFile, isSubmitting, isLoading, error, success,
                   validationErrors, submitPc, closure, netCalls, submitted>>
    /\ UNCHANGED <<gateVars, concVars, blogVars>>

\* handleImageChange: the user picks a file; the input is disabled while
\* isSubmitting || isUploading.
handleImageChange ==
    /\ Rendered
    /\ ~(isSubmitting \/ isUploading)
    /\ \E file \in Files :
        IF file.type # "image"
        THEN /\ validationErrors' = withError(validationErrors, "coverImage", "not an image")
             /\ UNCHANGED imageFile
        ELSE IF file.size > FiveMB
        THEN /\ validationErrors' = withError(validationErrors, "coverImage", "too large")
             /\ UNCHANGED imageFile
        ELSE /\ imageFile' = <<file>>
             /\ validationErrors' = deleteError(validationErrors, "coverImage")
    /\ UNCHANGED <<page, formData, originalData, isSubmitting, isLoading, error, success,
                   submitPc, closure, netCalls, submitted>>
    /\ UNCHANGED <<gateVars, concVars, blogVars>>

\* disabled={isSubmitting || isUploading} of the create form's submit button
CreateDisabled == isSubmitting \/ isUploading

\* disabled={isSubmitting || isUploading || !hasChanges()} of the edit form's
\* Save button
SaveDisabled == isSubmitting \/ isUploading \/ ~hasChanges(formData, originalData)

\* The page's submit button is disabled.
SubmitDisabled == IF page = "edit" THEN SaveDisabled ELSE CreateDisabled

\* The catch and finally blocks of handleSubmit: setError(message),
\* setIsSubmitting(false), and the handler is over.
Caught(message) ==
    /\ error' = message
    /\ isSubmitting' = FALSE
    /\ submitPc' = "none"
    /\ closure' = <<>>
    /\ submitted' = "done"

\* handleSubmit from the submit event to its first await: validateForm, and
\* when it passes the three set-state calls and the first network call, the
\* upload when a file is selected, else the API request.
Submit ==
    /\ Rendered
    /\ ~SubmitDisabled
    /\ validationErrors' = validationErrorsOf(formData, imageFile)
    /\ IF ~validateForm(formData, imageFile)
       THEN /\ submitted' = "invalid"
            /\ netCalls' = <<>>
            /\ UNCHANGED <<isSubmitting, error, success, submitPc, closure>>
       ELSE /\ submitted' = "pending"
            /\ isSubmitting' = TRUE
            /\ error' = NoMessage(page)
            /\ success' = NoMessage(page)
            /\ closure' = <<[formData |-> formData,
                             coverImageUrl |-> valueOf(formData, "coverImage")]>>
            /\ submitPc' = IF imageFile # <<>> THEN "upload" ELSE "request"
            /\ netCalls' = IF imageFile # <<>> THEN <<"upload">> ELSE <<"request">>
    /\ UNCHANGED <<page, formData, originalData, imageFile, isLoading>>
    /\ UNCHANGED <<gateVars, concVars, blogVars>>

\* handleSubmit with the inner catch swallowing the upload error
handleSubmitAfterUpload_swallow(result, cl) ==
    [pc |-> "request",
     coverImageUrl |-> IF result.ok THEN result.url ELSE cl.coverImageUrl,
     thrown |-> ""]

\* handleSubmit after uploadImage settled: coverImageUrl = url and on to the
\* request, or the inner catch rethrows
handleSubmitAfterUpload(result, cl) ==
    IF result.ok
    THEN [pc |-> "request", coverImageUrl |-> result.url, thrown |-> ""]
    ELSE [pc |-> "catch", coverImageUrl |-> cl.coverImageUrl,
          thrown |-> "Failed to upload image"]

\* handleSubmit resumes after uploadImage settled.
UploadSettles ==
    /\ submitPc = "upload"
    /\ \E result \in UploadResults :
        LET step == handleSubmitAfterUpload(result, closure[1])
            settled == Append(netCalls, IF result.ok THEN "upload:ok" ELSE "upload:failed")
        IN  IF step.pc = "request"
            THEN /\ submitPc' = "request"
                 /\ closure' = <<[closure[1] EXCEPT !.coverImageUrl = step.coverImageUrl]>>
                 /\ netCalls' = Append(settled, "request")
                 /\ UNCHANGED <<isSubmitting, error, submitted>>
            ELSE /\ netCalls' = settled
                 /\ Caught(step.thrown)
    /\ UNCHANGED <<page, formData, originalData, imageFile, isLoading, success,
                   validationErrors>>
    /\ UNCHANGED <<gateVars, concVars, blogVars>>

\* 'Failed to create blog post' and `Failed to update blog (${response.status})`
DefaultFailure(p) == IF p = "edit" THEN "Failed to update blog (500)" ELSE "Failed to create blog post"

\* 'Blog post created successfully!' and 'Blog post updated successfully!'
SuccessMessage(p) ==
    IF p = "edit" THEN "Blog post updated successfully!" ELSE "Blog post created successfully!"

\* What handleSubmit throws after the request settled, "" when it throws
\* nothing: fetch rejected, or the status is not ok and the body gives the
\* message or fails to parse, or (edit form) the ok body fails to parse.
thrownAfterRequest(p, reply) ==
    IF reply.status = "rejected" THEN "Failed to fetch"
    ELSE IF reply.status = "notOk"
    THEN IF reply.error = "unparsable" THEN "Unexpected token"
         ELSE IF reply.error # "" THEN reply.error
         ELSE DefaultFailure(p)
    ELSE IF p = "edit" /\ reply.error = "unparsable" THEN "Unexpected token"
    ELSE ""

\* The record of how the API request settled.
requestSettled(status) ==
    IF status = "ok" THEN "request:ok"
    ELSE IF status = "notOk" THEN "request:notOk"
    ELSE "request:rejected"

\* handleSubmit resumes after the API request settled and runs to its end.
RequestSettles ==
    /\ submitPc = "request"
    /\ \E reply \in SubmitReplies(closure[1]) :
        LET thrown == thrownAfterRequest(page, reply) IN
        /\ netCalls' = Append(netCalls, requestSettled(reply.status))
        /\ IF thrown # ""
           THEN /\ Caught(thrown)
                /\ UNCHANGED <<formData, originalData, success>>
           ELSE /\ success' = SuccessMessage(page)
                /\ IF page = "edit"
                   THEN /\ formData' = formatBlog(reply.blog)
                        /\ originalData' = <<formatBlog(reply.blog)>>
                   ELSE UNCHANGED <<formData, originalData>>
                /\ isSubmitting' = FALSE
                /\ submitPc' = "none"
                /\ closure' = <<>>
                /\ submitted' = "done"
                /\ UNCHANGED error
    /\ UNCHANGED <<page, imageFile, isLoading, validationErrors>>
    /\ UNCHANGED <<gateVars, concVars, blogVars>>

\* The create form's timer fires 1500 ms after a success: router.push('/admin/blogs').
Navigate ==
    /\ page = "create"
    /\ submitPc = "none"
    /\ isSet(success)
    /\ Unmount
    /\ UNCHANGED <<gateVars, concVars, blogVars>>

\* The Cancel button, disabled while isSubmitting: router.push('/admin/blogs').
Cancel ==
    /\ Rendered
    /\ ~isSubmitting
    /\ Unmount
    /\ UNCHANGED <<gateVars, concVars, blogVars>>

NextForms ==
    \/ OpenCreate
    \/ OpenEdit
    \/ FetchBlogSettles
    \/ handleChange
    \/ handleContentChange
    \/ handleCheckboxChange
    \/ handleImageChange
    \/ Submit
    \/ UploadSettles
    \/ RequestSettles
    \/ Navigate
    \/ Cancel

SpecForms == Init /\ [][NextForms]_vars

\* Every network call a handler awaits settles.
FairForms == WF_vars(UploadSettles) /\ WF_vars(RequestSettles)

SpecFormsFair == SpecForms /\ FairForms

\* ---------------------------------------------------------------- form properties

\* The last handleSubmit made the network call, or saw it settle as, c.
called(c) == \E i \in 1..Len(netCalls) : netCalls[i] = c

\* What holds of a handleSubmit at each stage: rejected by validateForm, it made
\* no call and isSubmitting is false; suspended at an await, isSubmitting is
\* true and the call awaited is the last one made; over, isSubmitting is false
\* and exactly one of error and success is set; and no request follows a
\* failed upload.
SubmissionStages ==
    /\ submitted = "invalid" => (netCalls = <<>> /\ ~isSubmitting /\ submitPc = "none")
    /\ submitted = "pending" =>
          (/\ isSubmitting
           /\ submitPc \in {"upload", "request"}
           /\ netCalls # <<>>
           /\ netCalls[Len(netCalls)] = submitPc)
    /\ submitted = "done" =>
          (/\ ~isSubmitting
           /\ submitPc = "none"
           /\ isSet(error) # isSet(success))
    /\ called("upload:failed") => ~called("request")

\* C21: in the create and the edit form, a handleSubmit that validateForm
\* rejects sends no upload and no API request and leaves isSubmitting false; one
\* it accepts holds isSubmitting true while its upload or request is in flight,
\* never sends the API request after a failed upload, ends with isSubmitting
\* false and exactly one of error and success set, and, the calls it awaits
\* settling, does end: isSubmitting always leads to isSubmitting false.
C21_SubmissionLifecycle ==
    /\ []SubmissionStages
    /\ isSubmitting ~> ~isSubmitting

\* A handleSubmit is over whose image upload failed: the error is set and
\* nothing was requested.
C21_Witness ==
    /\ page \in {"create", "edit"}
    /\ submitted = "done"
    /\ called("upload:failed")
    /\ isSet(error)
    /\ ~isSubmitting

\* The Save button of the edit form, when enabled, has a loaded blog that
\* formData differs from and no submit or upload in flight; it is disabled
\* while originalData is null.
SaveEnabledOnlyWhenChanged ==
    page = "edit" =>
        /\ ~SaveDisabled =>
              (/\ originalData # <<>>
               /\ formData # originalData[1]
               /\ ~isSubmitting
               /\ ~isUploading)
        /\ originalData = <<>> => SaveDisabled

\* A step of the edit form that sets success leaves formData equal to
\* originalData and the Save button disabled; a step that changes imageFile
\* leaves formData and the Save button as they were.
SaveAcrossStep ==
    (page = "edit" /\ page' = "edit") =>
        /\ (~isSet(success) /\ isSet(success')) =>
              (/\ originalData' # <<>>
               /\ formData' = originalData'[1]
               /\ SaveDisabled')
        /\ imageFile' # imageFile =>
              (/\ formData' = formData
               /\ SaveDisabled' = SaveDisabled)

\* C22: in the edit form the Save button is enabled only when formData differs
\* from originalData and no submit or upload is in flight; it is disabled
\* before the blog has loaded, disabled again right after every successful
\* save, when formData and originalData are both the server's response, and
\* selecting a cover image file alone does not enable it.
C22_SaveOnlyWhenChanged ==
    /\ []SaveEnabledOnlyWhenChanged
    /\ [][SaveAcrossStep]_vars

\* A save with a selected image has just succeeded in the edit form: the Save
\* button is disabled, formData and originalData being the server's response.
C22_Witness ==
    /\ page = "edit"
    /\ submitted = "done"
    /\ isSet(success)
    /\ imageFile # <<>>
    /\ originalData # <<>>
    /\ formData = originalData[1]
    /\ SaveDisabled

====
